---------------------------- MODULE Spec2Model ----------------------------
(***************************************************************************)
(* AquaOmics-Insight: the upload service (src/app.py) and the omics        *)
(* pipeline with its renderers (src/api.py).                               *)
(*                                                                         *)
(* Three specifications:                                                   *)
(*   Spec       the service: /upload requests and direct calls of          *)
(*              process_omics_data, interleaved at renderer-call grain     *)
(*              (Flask's development server handles requests in threads);  *)
(*   SpecGraph  the graph building of create_network_diagram over small    *)
(*              sample x feature matrices;                                 *)
(*   SpecDE     the simulated differential expression of                   *)
(*              create_volcano_plot.                                       *)
(*                                                                         *)
(* Grain: the validation part of upload_file is one step; in the pipeline  *)
(* the data selection, each renderer call and the return are one step      *)
(* each, so that calls interleave between renderer calls. A savefig may    *)
(* fail at any renderer call (an unwritable path, a full disk).            *)
(***************************************************************************)
EXTENDS Integers, Sequences, FiniteSets

VARIABLES
    \* ---- the service (Spec) ----
    pc,          \* per call: "idle" | "start" | "render" | "return" | "done"
    caller,      \* per call: "none" | "upload" (app.py:159) | "main" (api.py:143)
    file_path,   \* per call: the argument of process_omics_data
    omics_data,  \* per call: the matrices the pipeline works on
    step,        \* per call: renderer calls completed so far
    rendered,    \* per call: artifact filenames this call has written
    failed,      \* per call: artifact filenames whose savefig raised
    result,      \* per call: what process_omics_data returned or raised
    response,    \* per call: the HTTP response of upload_file
    disposal,    \* per call: what became of the uploaded file
    results,     \* the results directory: filename -> content
    uploads,     \* the uploads directory: the set of paths in it
    open_figs,   \* pyplot's registry of open figures
    \* ---- graph building (SpecGraph) ----
    data,        \* the matrix handed to create_network_diagram
    graphs,      \* threshold -> the graph built with it (or NotBuilt)
    \* ---- differential expression (SpecDE) ----
    feature_count,  \* data.shape[1] of the matrix handed to create_volcano_plot
    de_table        \* the values drawn, or NotDrawn

svc_vars == <<pc, caller, file_path, omics_data, step, rendered, failed,
              result, response, disposal, results, uploads, open_figs>>
graph_vars == <<data, graphs>>
de_vars == <<feature_count, de_table>>
vars == <<svc_vars, graph_vars, de_vars>>

---------------------------------------------------------------------------
(* Bounds *)

MaxRequests == 2     \* calls of the pipeline in one behaviour
MaxFeatures == 3     \* columns of a matrix (SpecGraph, SpecDE)
NumSamples == 3      \* rows of a matrix (SpecGraph)
PResolution == 3     \* the unit interval is cut into PResolution steps

Calls == 1..MaxRequests
None == "None"

---------------------------------------------------------------------------
(* src/api.py: generate_sample_omics_data *)

GenomicsFeatures == 100
MetabolomicsFeatures == 50
ProteomicsFeatures == 75
SampleCount == 50

generate_sample_omics_data ==
    [source       |-> "synthetic",
     genomics     |-> [rows |-> SampleCount, cols |-> GenomicsFeatures],
     metabolomics |-> [rows |-> SampleCount, cols |-> MetabolomicsFeatures],
     proteomics   |-> [rows |-> SampleCount, cols |-> ProteomicsFeatures]]

NoData == [source |-> "unset"]

---------------------------------------------------------------------------
(* src/app.py: upload_file, the validation of the request (lines 81-155) *)

\* The form keys a request may carry its file part under; "data" is one the
\* handler does not look for.
FormKeys == {"csv", "file", "uploaded_file", "data"}
file_keys == <<"csv", "file", "uploaded_file">>

\* The filenames a client may send; the empty one is "no file selected".
Filenames == {"", "notes.txt", "a.csv", "b.CSV"}

\* The part of a filename after its last dot, lower-cased (str.lower()).
LowerExt(fn) ==
    CASE fn = "a.csv" -> "csv"
      [] fn = "b.CSV" -> "csv"
      [] fn = "notes.txt" -> "txt"
      [] OTHER -> ""

\* file.filename.lower().endswith('.csv')
EndsWithCsv(fn) == LowerExt(fn) = "csv"

\* os.path.join(app.config['UPLOAD_FOLDER'], file.filename)
UploadPath(fn) ==
    CASE fn = "a.csv" -> "uploads/a.csv"
      [] fn = "b.CSV" -> "uploads/b.CSV"
      [] fn = "notes.txt" -> "uploads/notes.txt"
      [] OTHER -> "uploads/"

\* What pd.read_csv makes of the saved bytes: it raises EmptyDataError on a
\* file with no columns to parse, another exception on bytes it cannot
\* decode or tokenize, and otherwise returns a frame.
Contents ==
    {[parse |-> "EmptyDataError", columns |-> {}, rows |-> 0],
     [parse |-> "ParserError", columns |-> {}, rows |-> 0],
     [parse |-> "ok", columns |-> {"Gene", "Expression", "Condition"}, rows |-> 0],
     [parse |-> "ok", columns |-> {"Gene", "Expression"}, rows |-> 1],
     [parse |-> "ok", columns |-> {"Sample"}, rows |-> 1],
     [parse |-> "ok", columns |-> {"Gene", "Expression", "Condition"}, rows |-> 1],
     [parse |-> "ok", columns |-> {"Gene", "Expression", "Condition", "Tank"}, rows |-> 1]}

\* request.files: no part at all, or one part under one key
NoFiles == [key |-> "", filename |-> "",
            content |-> [parse |-> "EmptyDataError", columns |-> {}, rows |-> 0]]
Uploads == {NoFiles} \cup [key : FormKeys, filename : Filenames, content : Contents]

required_columns == {"Gene", "Expression", "Condition"}

\* DataFrame.empty: any axis of length 0
DfEmpty(content) == content.rows = 0 \/ content.columns = {}

NoResponse == [status |-> 0]
Reject(code, error) == [status |-> code, error |-> error]

\* The response of the validation part of upload_file, or NoResponse when
\* the request passes it (lines 81-155).
Validate(req) ==
    IF req = NoFiles THEN Reject(400, "No file part in the request")
    ELSE IF \A k \in 1..Len(file_keys) : file_keys[k] # req.key
         THEN Reject(400, "No file found")
    ELSE IF req.filename = ""
         THEN Reject(400, "No file selected")
    ELSE IF ~EndsWithCsv(req.filename) THEN Reject(400, "Invalid file type")
    ELSE IF req.content.parse = "EmptyDataError"
         THEN Reject(400, "File reading error")
    ELSE IF req.content.parse # "ok" THEN Reject(500, "File processing error")
    ELSE IF DfEmpty(req.content) THEN Reject(400, "Empty file")
    ELSE IF required_columns \ req.content.columns # {}
         THEN Reject(400, "Invalid CSV structure")
    ELSE NoResponse

\* file.save(file_path) is reached (line 121) once the four checks on the
\* request itself have passed.
ReachesSave(req) ==
    /\ req # NoFiles
    /\ \E k \in 1..Len(file_keys) : file_keys[k] = req.key
    /\ req.filename # ""
    /\ EndsWithCsv(req.filename)

\* os.remove(file_path) is called on the two branches that say so
\* (lines 129 and 140), and on no other.
RemovesUpload(req) ==
    /\ ReachesSave(req)
    /\ req.content.parse = "ok"
    /\ \/ DfEmpty(req.content)
       \/ required_columns \ req.content.columns # {}

NoDisposal == [saved |-> FALSE, left |-> FALSE]

upload_file(c) ==
    /\ pc[c] = "idle"
    /\ \E req \in Uploads :
         LET resp == Validate(req)
             kept == IF ReachesSave(req)
                     THEN IF RemovesUpload(req)
                          THEN uploads \ {UploadPath(req.filename)}
                          ELSE uploads \cup {UploadPath(req.filename)}
                     ELSE uploads
         IN /\ uploads' = kept
            /\ caller' = [caller EXCEPT ![c] = "upload"]
            /\ disposal' = [disposal EXCEPT ![c] =
                              [saved |-> ReachesSave(req),
                               left  |-> ReachesSave(req) /\ UploadPath(req.filename) \in kept]]
            /\ IF resp = NoResponse
               THEN /\ pc' = [pc EXCEPT ![c] = "start"]
                    /\ file_path' = [file_path EXCEPT ![c] = UploadPath(req.filename)]
                    /\ response' = response
               ELSE /\ pc' = [pc EXCEPT ![c] = "done"]
                    /\ response' = [response EXCEPT ![c] = resp]
                    /\ file_path' = file_path
    /\ UNCHANGED <<omics_data, step, rendered, failed, result, results, open_figs>>
    /\ UNCHANGED <<graph_vars, de_vars>>

\* api.py:142-143: the script's own call, process_omics_data()
main(c) ==
    /\ pc[c] = "idle"
    /\ pc' = [pc EXCEPT ![c] = "start"]
    /\ caller' = [caller EXCEPT ![c] = "main"]
    /\ file_path' = [file_path EXCEPT ![c] = None]
    /\ UNCHANGED <<omics_data, step, rendered, failed, result, response,
                   disposal, results, uploads, open_figs>>
    /\ UNCHANGED <<graph_vars, de_vars>>

---------------------------------------------------------------------------
(* src/api.py: process_omics_data and the renderer calls it makes *)

\* The fixed table of renderer calls (lines 111-127): for each, the matrix
\* it is given, the renderer, and the filename under results/.
VizTable ==
    << [modality |-> "genomics", renderer |-> "create_heatmap",
        filename |-> "genomics_heatmap.png"],
       [modality |-> "metabolomics", renderer |-> "create_heatmap",
        filename |-> "metabolomics_heatmap.png"],
       [modality |-> "proteomics", renderer |-> "create_volcano_plot",
        filename |-> "proteomics_volcano.png"] >>

ArtifactNames == {VizTable[k].filename : k \in 1..Len(VizTable)}

\* The literal list returned at lines 133-138.
ReturnedVisualizations ==
    <<"genomics_heatmap.png", "metabolomics_heatmap.png", "proteomics_volcano.png">>

Absent == [run |-> 0, source |-> "absent"]
NoResult == [kind |-> "none"]

\* Lines 103-108 with the else branch reading the file: not what the code does.
LoadParsed(path) ==
    IF path = None
    THEN generate_sample_omics_data
    ELSE [generate_sample_omics_data EXCEPT !.source = path]

\* Lines 103-108: both branches generate the sample data.
LoadData(path) ==
    IF path = None
    THEN generate_sample_omics_data
    ELSE generate_sample_omics_data

\* Lines 99-108: os.makedirs(results_dir, exist_ok=True), then the data.
process_start(c) ==
    /\ pc[c] = "start"
    /\ omics_data' = [omics_data EXCEPT ![c] = LoadData(file_path[c])]
    /\ pc' = [pc EXCEPT ![c] = "render"]
    /\ UNCHANGED <<caller, file_path, step, rendered, failed, result,
                   response, disposal, results, uploads, open_figs>>
    /\ UNCHANGED <<graph_vars, de_vars>>

\* The renderer call the pipeline makes next.
Current(c) == VizTable[step[c] + 1]

\* What a successful renderer call leaves behind: plt.figure() ...
\* plt.savefig(filename), plt.close(). The file at that name is replaced,
\* whoever wrote it; the figure opened is closed again.
Rendered(c) ==
    /\ results' = [results EXCEPT ![Current(c).filename] =
                     [run |-> c, source |-> omics_data[c].source]]
    /\ rendered' = [rendered EXCEPT ![c] = @ \cup {Current(c).filename}]
    /\ step' = [step EXCEPT ![c] = @ + 1]
    /\ pc' = [pc EXCEPT ![c] =
                IF step[c] + 1 = Len(VizTable) THEN "return" ELSE "render"]
    /\ UNCHANGED <<caller, file_path, omics_data, failed, result, response,
                   disposal, uploads, open_figs>>
    /\ UNCHANGED <<graph_vars, de_vars>>

\* A renderer call that holds a lock on the results directory: not what the
\* code does.
render_ok_locked(c) ==
    /\ pc[c] = "render"
    /\ \A d \in Calls \ {c} : pc[d] \notin {"render", "return"}
    /\ Rendered(c)

\* create_heatmap / create_volcano_plot, savefig succeeding (lines 34-43,
\* 45-67). Nothing guards the call against another call in progress.
render_ok(c) ==
    /\ pc[c] = "render"
    /\ Rendered(c)

\* The exception savefig raises on a path it cannot write.
SaveError(c) == [type |-> "OSError", filename |-> Current(c).filename]

\* A renderer whose failed savefig is swallowed and whose figure is closed,
\* the pipeline going on to the next call: not what the code does.
render_fail_swallowed(c) ==
    /\ pc[c] = "render"
    /\ failed' = [failed EXCEPT ![c] = @ \cup {Current(c).filename}]
    /\ step' = [step EXCEPT ![c] = @ + 1]
    /\ pc' = [pc EXCEPT ![c] =
                IF step[c] + 1 = Len(VizTable) THEN "return" ELSE "render"]
    /\ UNCHANGED <<caller, file_path, omics_data, rendered, result, response,
                   disposal, results, uploads, open_figs>>
    /\ UNCHANGED <<graph_vars, de_vars>>

\* create_heatmap / create_volcano_plot, savefig raising: plt.close() on the
\* next line is not reached, the exception leaves process_omics_data (which
\* has no handler) and, under /upload, is turned into the 500 of app.py
\* lines 161-165.
render_fail(c) ==
    /\ pc[c] = "render"
    /\ open_figs' = open_figs \cup {[run |-> c, filename |-> Current(c).filename]}
    /\ failed' = [failed EXCEPT ![c] = @ \cup {Current(c).filename}]
    /\ result' = [result EXCEPT ![c] = [kind |-> "raise", exception |-> SaveError(c)]]
    /\ response' = [response EXCEPT ![c] =
                      IF caller[c] = "upload"
                      THEN [status |-> 500, error |-> "Data processing error",
                            message |-> SaveError(c)]
                      ELSE @]
    /\ pc' = [pc EXCEPT ![c] = "done"]
    /\ UNCHANGED <<caller, file_path, omics_data, step, rendered, disposal,
                   results, uploads>>
    /\ UNCHANGED <<graph_vars, de_vars>>

\* Lines 131-139, and under /upload jsonify(results), 200 (app.py:160).
return_manifest(c) ==
    /\ pc[c] = "return"
    /\ result' = [result EXCEPT ![c] =
                    [kind |-> "return",
                     message |-> "Omics data processed successfully",
                     visualizations |-> ReturnedVisualizations]]
    /\ response' = [response EXCEPT ![c] =
                      IF caller[c] = "upload"
                      THEN [status |-> 200,
                            message |-> "Omics data processed successfully",
                            visualizations |-> ReturnedVisualizations]
                      ELSE @]
    /\ pc' = [pc EXCEPT ![c] = "done"]
    /\ UNCHANGED <<caller, file_path, omics_data, step, rendered, failed,
                   disposal, results, uploads, open_figs>>
    /\ UNCHANGED <<graph_vars, de_vars>>

---------------------------------------------------------------------------
(* src/api.py: create_network_diagram, the graph building (lines 73-83) *)

\* A matrix is a sequence of feature columns, each a function from sample
\* to measurement; position k of the sequence is Python's column k-1.
Measurements == {0, 1}
Samples == 1..NumSamples
Columns == [Samples -> Measurements]
Matrices == UNION {[1..n -> Columns] : n \in 0..MaxFeatures}

\* The strong-correlation threshold of line 82, in hundredths.
GraphThreshold == 70
\* Thresholds the loop is run with; GraphThreshold is the code's.
Thresholds == {30, GraphThreshold, 90}

RECURSIVE SumTo(_, _)
SumTo(f, k) == IF k = 0 THEN 0 ELSE f[k] + SumTo(f, k - 1)

\* NumSamples^2 times the covariance of two columns.
Cov(x, y) ==
    NumSamples * SumTo([s \in Samples |-> x[s] * y[s]], NumSamples)
        - SumTo(x, NumSamples) * SumTo(y, NumSamples)

Abs(z) == IF z < 0 THEN -z ELSE z

\* A correlation r is kept exactly, as num / sqrt(den2). A column of zero
\* variance makes it 0/0: NaN.
NaN == [num |-> 0, den2 |-> 0]

\* DataFrame.corr(): Pearson's r of two columns.
Pearson(x, y) ==
    LET vx == Cov(x, x)
        vy == Cov(y, y)
    IN IF vx = 0 \/ vy = 0
       THEN NaN
       ELSE [num |-> Cov(x, y), den2 |-> vx * vy]

\* data.corr().abs(), line 74; NaN stays NaN.
corr_matrix(m) ==
    [i \in 0..(Len(m) - 1) |->
        [j \in 0..(Len(m) - 1) |->
            LET r == Pearson(m[i + 1], m[j + 1])
            IN [num |-> Abs(r.num), den2 |-> r.den2]]]

\* The comparison written "not (r <= t)": NaN passes it. Not what the code does.
NotAtMost(r, t) ==
    \/ r.den2 = 0
    \/ r.num > 0 /\ 10000 * r.num * r.num > t * t * r.den2

\* The comparison turned round, r < t. Not what the code does.
Below(r, t) ==
    /\ r.den2 # 0
    /\ (r.num < 0 \/ 10000 * r.num * r.num < t * t * r.den2)

\* r > t/100 (line 82). A comparison with NaN is False.
Exceeds(r, t) ==
    /\ r.den2 # 0
    /\ r.num > 0
    /\ 10000 * r.num * r.num > t * t * r.den2

\* The inner range starting at i. Not what the code does.
InnerFromSelf(i) == i

\* range(i+1, ...), line 81
InnerFrom(i) == i + 1

\* corr_matrix.index[i], corr_matrix.columns[j]: the labels generated at
\* line 14 number the features from 1.
Label(i) == i + 1

\* nx.Graph(): a node set and an adjacency set per node.
EmptyGraph == [built |-> TRUE, nodes |-> {}, adj |-> <<>>]
NotBuilt == [built |-> FALSE, nodes |-> {}, adj |-> <<>>]

\* G.add_edge(u, v): both nodes are added if absent, each becomes the
\* other's neighbour.
add_edge(G, u, v) ==
    LET nodes == G.nodes
        adj == G.adj
    IN [built |-> TRUE,
        nodes |-> nodes \cup {u, v},
        adj   |-> [x \in nodes \cup {u, v} |->
                     (IF x \in nodes THEN adj[x] ELSE {})
                     \cup (IF x = u THEN {v} ELSE {})
                     \cup (IF x = v THEN {u} ELSE {})]]

\* Lines 81-83: for j in range(i+1, n)
RECURSIVE InnerLoop(_, _, _, _, _)
InnerLoop(G, corr, i, j, t) ==
    IF j >= Cardinality(DOMAIN corr)
    THEN G
    ELSE InnerLoop(IF Exceeds(corr[i][j], t)
                   THEN add_edge(G, Label(i), Label(j))
                   ELSE G,
                   corr, i, j + 1, t)

\* Lines 80-83: for i in range(n)
RECURSIVE OuterLoop(_, _, _, _)
OuterLoop(G, corr, i, t) ==
    IF i >= Cardinality(DOMAIN corr)
    THEN G
    ELSE OuterLoop(InnerLoop(G, corr, i, InnerFrom(i), t), corr, i + 1, t)

\* Lines 73-83 with the literal 0.7 as the parameter t.
build_graph(m, t) == OuterLoop(EmptyGraph, corr_matrix(m), 0, t)

\* create_network_diagram up to the graph (the drawing of lines 85-93
\* follows and does not change G), run over the same matrix with each
\* threshold; graphs[GraphThreshold] is the graph the code builds.
create_network_diagram ==
    /\ \A t \in Thresholds : ~graphs[t].built
    /\ graphs' = [t \in Thresholds |-> build_graph(data, t)]
    /\ UNCHANGED <<data, svc_vars, de_vars>>

---------------------------------------------------------------------------
(* src/api.py: create_volcano_plot, the simulated values (lines 51-56) *)

\* A few values of the normal(0, 2) draw.
LfcValues == {-2, 0, 2}

\* np.random.uniform(0, 1, n) draws from the half-open [0, 1): the values
\* k / PResolution for k = 0 .. PResolution - 1, kept as k.
PValues == 0..(PResolution - 1)

\* -np.log10(p): infinite at p = 0 (log10(0) is -inf), finite and
\* non-negative on (0, 1].
NegLog10(p) == [infinite |-> p = 0, of |-> p]

NotDrawn == [drawn |-> FALSE, log_fold_change |-> <<>>, p_values |-> <<>>,
             points |-> <<>>]

\* Lines 52-56: the two draws of data.shape[1] values and the points
\* scattered.
create_volcano_plot ==
    /\ ~de_table.drawn
    /\ \E lfc \in [1..feature_count -> LfcValues],
          p \in [1..feature_count -> PValues] :
         de_table' = [drawn |-> TRUE,
                      log_fold_change |-> lfc,
                      p_values |-> p,
                      points |-> [k \in 1..feature_count |->
                                    [x |-> lfc[k], y |-> NegLog10(p[k])]]]
    /\ UNCHANGED <<feature_count, svc_vars, graph_vars>>

---------------------------------------------------------------------------
(* The service *)

GraphUnused == data = <<>> /\ graphs = <<>>
DEUnused == feature_count = 0 /\ de_table = <<>>

Init ==
    /\ pc = [c \in Calls |-> "idle"]
    /\ caller = [c \in Calls |-> "none"]
    /\ file_path = [c \in Calls |-> None]
    /\ omics_data = [c \in Calls |-> NoData]
    /\ step = [c \in Calls |-> 0]
    /\ rendered = [c \in Calls |-> {}]
    /\ failed = [c \in Calls |-> {}]
    /\ result = [c \in Calls |-> NoResult]
    /\ response = [c \in Calls |-> NoResponse]
    /\ disposal = [c \in Calls |-> NoDisposal]
    /\ results = [f \in ArtifactNames |-> Absent]
    /\ uploads = {}
    /\ open_figs = {}
    /\ GraphUnused
    /\ DEUnused

Next ==
    \E c \in Calls :
        \/ upload_file(c)
        \/ main(c)
        \/ process_start(c)
        \/ render_ok(c)
        \/ render_fail(c)
        \/ return_manifest(c)

Spec == Init /\ [][Next]_vars

---------------------------------------------------------------------------
(* Graph building and the simulation, each on its own *)

ServiceUnused ==
    /\ pc = <<>> /\ caller = <<>> /\ file_path = <<>> /\ omics_data = <<>>
    /\ step = <<>> /\ rendered = <<>> /\ failed = <<>> /\ result = <<>>
    /\ response = <<>> /\ disposal = <<>> /\ results = <<>>
    /\ uploads = {} /\ open_figs = {}

InitGraph ==
    /\ data \in Matrices
    /\ graphs = [t \in Thresholds |-> NotBuilt]
    /\ ServiceUnused
    /\ DEUnused

NextGraph == create_network_diagram

SpecGraph == InitGraph /\ [][NextGraph]_vars

InitDE ==
    /\ feature_count \in 0..MaxFeatures
    /\ de_table = NotDrawn
    /\ ServiceUnused
    /\ GraphUnused

NextDE == create_volcano_plot

SpecDE == InitDE /\ [][NextDE]_vars

---------------------------------------------------------------------------
(* Claims about the service *)

SeqRange(q) == {q[i] : i \in 1..Len(q)}

\* C1: whenever process_omics_data has returned a manifest, the manifest
\* lists exactly the artifacts that call wrote: each listed name once, each
\* written to results/ by this call, each file this call wrote listed, and
\* none whose render step failed.
C1_ManifestListsExactlyWritten ==
    \A c \in Calls :
        result[c].kind = "return" =>
            /\ SeqRange(result[c].visualizations) = rendered[c]
            /\ Cardinality(rendered[c]) = Len(result[c].visualizations)
            /\ SeqRange(result[c].visualizations) \cap failed[c] = {}
            /\ \A f \in SeqRange(result[c].visualizations) : results[f] # Absent

\* A call has returned its manifest after writing all three artifacts, while
\* another call of the same behaviour failed in a render step.
C1_Witness ==
    \E c, d \in Calls :
        /\ result[c].kind = "return"
        /\ rendered[c] = ArtifactNames
        /\ result[d].kind = "raise"

\* Whether a record handed to a caller names the artifacts call c wrote.
ReportsWritten(rec, c) ==
    /\ "visualizations" \in DOMAIN rec
    /\ SeqRange(rec.visualizations) = rendered[c]

\* C2: a call that wrote some artifacts and then failed in a later render
\* step hands its caller, with the failure, a partial manifest naming the
\* artifacts already written.
C2_PartialManifestWithFailure ==
    \A c \in Calls :
        (result[c].kind = "raise" /\ rendered[c] # {}) =>
            /\ ReportsWritten(result[c], c)
            /\ caller[c] = "upload" => ReportsWritten(response[c], c)

\* C7: between renderer calls no figure opened by an earlier call is still
\* open, whatever way that call ended.
C7_FiguresReleased == open_figs = {}

\* C8: the pipeline does not depend on file_path: every call works on the
\* generated sample data, nothing but generated data reaches results/, and
\* two calls with different file_path that return have written the same
\* filenames and return the same manifest and message.
C8_UploadedDataIgnored ==
    /\ \A c \in Calls :
           omics_data[c] # NoData => omics_data[c] = generate_sample_omics_data
    /\ \A f \in ArtifactNames :
           results[f] # Absent => results[f].source = "synthetic"
    /\ \A c, d \in Calls :
           ( /\ result[c].kind = "return"
             /\ result[d].kind = "return"
             /\ file_path[c] # file_path[d] ) =>
               /\ result[c] = result[d]
               /\ rendered[c] = rendered[d]

\* The script's call (file_path None) and an upload's call (file_path the
\* saved upload) have both returned.
C8_Witness ==
    \E c, d \in Calls :
        /\ caller[c] = "main" /\ file_path[c] = None
        /\ caller[d] = "upload" /\ file_path[d] # None
        /\ result[c].kind = "return"
        /\ result[d].kind = "return"

\* C9: concurrent runs are unguarded: a call that is about to render is
\* never held back by another call in progress, and its write replaces
\* whatever is at that filename.
C9_RendersUnguarded ==
    \A c \in Calls : pc[c] = "render" => ENABLED render_ok(c)

\* Two upload requests have both received their manifest, and results/
\* holds a file written by the one and a file written by the other: each
\* manifest names a file whose content is the other request's.
C9_Witness ==
    \E c, d \in Calls :
        /\ c # d
        /\ response[c].status = 200
        /\ response[d].status = 200
        /\ \E f, g \in SeqRange(response[c].visualizations) \cap
                       SeqRange(response[d].visualizations) :
               results[f].run = c /\ results[g].run = d

\* An /upload request answered by the validation part of the handler.
Rejected(c) ==
    /\ pc[c] = "done"
    /\ caller[c] = "upload"
    /\ response[c].status # 200
    /\ ~(response[c].status = 500 /\ response[c].error = "Data processing error")

\* C10: an /upload request rejected in validation never invokes the
\* pipeline, leaves results/ as it was, and leaves no saved upload behind.
C10_RejectedLeavesNothing ==
    \A c \in Calls :
        Rejected(c) =>
            /\ omics_data[c] = NoData
            /\ rendered[c] = {} /\ failed[c] = {}
            /\ disposal[c].saved => ~disposal[c].left

---------------------------------------------------------------------------
(* Claims about graph building *)

\* The edges of a graph, each the set of its endpoints (a self-loop is a
\* singleton).
Edges(G) == UNION {{{u, v} : v \in G.adj[u]} : u \in G.nodes}

Features(m) == 0..(Len(m) - 1)
FeatureLabels(m) == {Label(i) : i \in Features(m)}

\* The absolute correlation of features i and j is strictly above t/100.
StronglyCorrelated(m, i, j, t) ==
    LET r == Pearson(m[i + 1], m[j + 1])
    IN r # NaN /\ 10000 * r.num * r.num > t * t * r.den2

\* C3: the graph built with the 0.7 threshold has the edge {i, j} iff
\* i # j and |corr(i, j)| > 0.7; it has no self-loop, adjacency is
\* symmetric, and its nodes are exactly the endpoints of its edges.
C3_EdgeIffStronglyCorrelated ==
    LET G == graphs[GraphThreshold]
        E == Edges(G)
    IN G.built =>
        /\ \A i, j \in Features(data) :
               ({Label(i), Label(j)} \in E) <=>
                   (i # j /\ StronglyCorrelated(data, i, j, GraphThreshold))
        /\ \A e \in E : Cardinality(e) = 2 /\ e \subseteq FeatureLabels(data)
        /\ \A u \in G.nodes : \A v \in G.adj[u] : u \in G.adj[v]
        /\ G.nodes = UNION E

\* A graph over three features with an edge and an isolated feature that is
\* no node.
C3_Witness ==
    LET G == graphs[GraphThreshold]
    IN /\ G.built
       /\ Len(data) = 3
       /\ Edges(G) # {}
       /\ FeatureLabels(data) \ G.nodes # {}

ConstantColumn(x) == \A s, s2 \in Samples : x[s] = x[s2]

\* C4: when every feature is a constant column, every correlation entry is
\* undefined and the graph built has no node and no edge.
C4_ConstantColumnsGiveEmptyGraph ==
    LET G == graphs[GraphThreshold]
    IN (G.built /\ \A k \in 1..Len(data) : ConstantColumn(data[k])) =>
        /\ \A i, j \in Features(data) : corr_matrix(data)[i][j] = NaN
        /\ G.nodes = {}
        /\ Edges(G) = {}

\* The graph has been built over three constant columns, not all equal.
C4_Witness ==
    /\ graphs[GraphThreshold].built
    /\ Len(data) = 3
    /\ \A k \in 1..Len(data) : ConstantColumn(data[k])
    /\ \E k, l \in 1..Len(data) : data[k] # data[l]

\* C5: for thresholds t1 <= t2 over the same matrix, the edges built with
\* t2 are among the edges built with t1.
C5_ThresholdMonotonic ==
    \A t1, t2 \in Thresholds :
        (t1 <= t2 /\ graphs[t1].built /\ graphs[t2].built) =>
            Edges(graphs[t2]) \subseteq Edges(graphs[t1])

\* The thresholds have been applied to a matrix on which the highest keeps
\* some edges of the lowest and drops others.
C5_Witness ==
    /\ graphs[30].built /\ graphs[90].built
    /\ Edges(graphs[90]) # {}
    /\ Edges(graphs[90]) # Edges(graphs[30])

---------------------------------------------------------------------------
(* Claims about the simulated differential expression *)

\* C6: the simulation yields exactly feature_count log-fold-changes and
\* feature_count p-values, every p-value in (0, 1], so that every
\* -log10(p) is finite.
C6_DrawsWellFormed ==
    de_table.drawn =>
        /\ Len(de_table.log_fold_change) = feature_count
        /\ Len(de_table.p_values) = feature_count
        /\ \A k \in 1..feature_count :
               /\ de_table.p_values[k] > 0
               /\ de_table.p_values[k] <= PResolution
               /\ ~de_table.points[k].y.infinite

===========================================================================
